---- MODULE Spec2Model ----
(***************************************************************************)
(* A model of the scraper engine of croncert/goskyr: Scraper.GetItems with *)
(* its helpers filterItem, removeHiddenFields, extractField and getDate.   *)
(*                                                                         *)
(* External capabilities are the environment of the model.  The Fetcher    *)
(* answers every call with a document or an error; the document query      *)
(* primitives (goquery selections, getTextString, getURLString,            *)
(* time.LoadLocation, monday.ParseInLocation) answer with the raw value    *)
(* they find for a field.  The next-page link of every page is fixed for a *)
(* run (links); everything else a page holds is drawn when the code reads  *)
(* it, which the code does at most once per run, per item or per field.    *)
(***************************************************************************)
EXTENDS Integers, Sequences, FiniteSets, TLC

(***************************************************************************)
(* Bounds of the model.                                                    *)
(***************************************************************************)
MaxMaxPages == 2     \* largest paginator.max_pages explored
MaxNodes == 2        \* most item nodes c.Item matches on one page
MaxTotalNodes == 2   \* item nodes the site serves during one run
MaxFilters == 2      \* longest filter list given to filterItem on its own
MaxComponents == 2   \* most components of a date field
MaxWords == 3        \* longest text given to extractStringRegex, in words
MaxIndex == 4        \* regex_extract.index ranges over -MaxIndex..MaxIndex
MaxFound == 1        \* most nodes a location's selector finds
MaxChildren == 2     \* most direct children of a node getTextString reads
MaxItems == 201      \* most items the channel delivers to APIWriter.Write
HeadLen == 3         \* the first items of the channel are drawn freely

\* currentPage and the fetch counter are only ever compared with values up
\* to MaxMaxPages, so they are kept exact up to PageCap and saturate there.
PageCap == MaxMaxPages + 2

Min(a, b) == IF a < b THEN a ELSE b

(***************************************************************************)
(* Values.  Every value of an item is a string, as fmt.Sprint shows it.   *)
(***************************************************************************)
URLs == {"u1", "u2"}
ERR == "#err"          \* the primitive returned a non-nil error
Absent == "#absent"    \* the key is not in the map
NilStr == "<nil>"      \* fmt.Sprint of a missing map entry
Unread == "#unread"    \* the field was not resolved for this item
Selectors == {"x1", "x2"}

TextRaw == {ERR, "", "a"}   \* getTextString: an error or a text
URLRaw == {""} \cup URLs         \* getURLString: "" or a resolved URL
DateRaw == {ERR, "d1"}           \* getDate: an error or a timestamp

(***************************************************************************)
(* Regular expressions of filters, by the values they match.               *)
(***************************************************************************)
\* a compiler that accepts every pattern
CompilesAnything(re) == TRUE

\* regexp.Compile: every pattern but the unbalanced "(" compiles
Compiles(re) == re # "("

\* regex.MatchString on the values of the model
MatchString(re, s) ==
  CASE re = "a" -> s = "a"
    [] re = "u" -> s \in URLs
    [] re = "^$" -> s = ""
    [] OTHER -> FALSE

(***************************************************************************)
(* Configuration records (Field, Filter, Scraper).                         *)
(***************************************************************************)
Fld(name, value, type, onSubpage, canBeEmpty, hide) ==
  [Name |-> name, Value |-> value, Type |-> type, OnSubpage |-> onSubpage,
   CanBeEmpty |-> canBeEmpty, Hide |-> hide]

Flt(field, regex, match) == [Field |-> field, Regex |-> regex, Match |-> match]

\* a static field, two main-page fields, two fields on the same subpage
FieldsShop ==
  << Fld("src", "S", "text", "", FALSE, FALSE),
     Fld("title", "", "text", "", FALSE, FALSE),
     Fld("url", "", "url", "", FALSE, FALSE),
     Fld("desc", "", "text", "url", FALSE, FALSE),
     Fld("more", "", "", "url", TRUE, TRUE) >>

\* a hidden title, two url fields and a subpage field behind each
FieldsGigs ==
  << Fld("title", "", "", "", TRUE, TRUE),
     Fld("url", "", "url", "", FALSE, FALSE),
     Fld("alt", "", "url", "", FALSE, TRUE),
     Fld("desc", "", "text", "url", FALSE, TRUE),
     Fld("when", "", "date", "alt", FALSE, FALSE) >>

\* main-page fields only, one of a type that does not exist
FieldsOdd ==
  << Fld("title", "", "text", "", TRUE, FALSE),
     Fld("when", "", "date", "", FALSE, TRUE),
     Fld("kind", "", "color", "title", FALSE, FALSE) >>

\* main-page fields only
FieldsFlat ==
  << Fld("title", "", "text", "", TRUE, TRUE),
     Fld("url", "", "url", "", FALSE, FALSE) >>

\* a url field and a url field on its subpage
FieldsLinks ==
  << Fld("url", "", "url", "", FALSE, FALSE),
     Fld("more", "", "url", "url", FALSE, FALSE) >>

ScraperShapes ==
  { [Fields |-> FieldsShop, Filters |-> << >>,
     ExcludeWithSelector |-> <<"x1", "x2">>],
    [Fields |-> FieldsGigs, Filters |-> << Flt("title", "a", FALSE) >>,
     ExcludeWithSelector |-> << >>],
    [Fields |-> FieldsOdd, Filters |-> << >>,
     ExcludeWithSelector |-> <<"x2">>],
    [Fields |-> FieldsFlat,
     Filters |-> << Flt("title", "a", TRUE), Flt("zzz", "a", TRUE) >>,
     ExcludeWithSelector |-> <<"x1">>],
    [Fields |-> FieldsFlat,
     Filters |-> << Flt("title", "^$", FALSE), Flt("url", "(", TRUE) >>,
     ExcludeWithSelector |-> << >>],
    [Fields |-> FieldsLinks, Filters |-> << >>,
     ExcludeWithSelector |-> << >>] }

Scraper(sh, mp) ==
  [ URL |-> "u1", Fields |-> sh.Fields, Filters |-> sh.Filters,
    ExcludeWithSelector |-> sh.ExcludeWithSelector, MaxPages |-> mp ]

\* the scrapers of the runs that look at the items: no page limit
Scrapers == { Scraper(sh, 0) : sh \in ScraperShapes }

\* a url field and one field on its subpage
FieldsTiny ==
  << Fld("url", "", "url", "", FALSE, FALSE),
     Fld("desc", "", "text", "url", FALSE, FALSE) >>

\* the scrapers of the runs that look at the pagination: every page limit
PageScrapers ==
  { Scraper([ Fields |-> FieldsTiny, Filters |-> << >>,
              ExcludeWithSelector |-> <<"x1">> ], mp) : mp \in 0..MaxMaxPages }

\* the next-page links of a site: what getURLString finds on each page for
\* the paginator's location, "" when the page has no such link
LinkStructures == [URLs -> {""} \cup URLs]

\* a site of two pages, the first linking to the second
TwoPages == [ u \in URLs |-> IF u = "u1" THEN "u2" ELSE "" ]

VARIABLES
  c,            \* the Scraper (receiver of GetItems)
  links,        \* the site's next-page links
  pc,           \* position in GetItems
  pageURL, hasNextPage, currentPage, items,   \* locals of GetItems
  retErr,       \* the error GetItems returns
  nNodes, i,    \* item nodes of the current document, index of Each
  currentItem, subDocs, k,   \* locals of the callback; k: field of the subpage loop
  served,       \* item nodes the site has served
  nMain,        \* calls of fetcher.Fetch for main pages
  lastRes,      \* what the last fetch and parse of a main page answered
  cur,          \* what the callback has read for its node
  prevFetched,  \* the subpages fetched for the previous node
  args, ret     \* arguments and result of a helper called on its own

vars == << c, links, pc, pageURL, hasNextPage, currentPage, items, retErr,
           nNodes, i, currentItem, subDocs, k, served, nMain, lastRes, cur,
           prevFetched, args, ret >>

(***************************************************************************)
(* Maps from field names to values.                                        *)
(***************************************************************************)
FieldNames(cc) == { cc.Fields[n].Name : n \in 1..Len(cc.Fields) }

EmptyItem(cc) == [ n \in FieldNames(cc) |-> Absent ]

Found(item, key) == key \in DOMAIN item /\ item[key] # Absent

Put(item, key, v) == [ item EXCEPT ![key] = v ]

Delete(item, key) == [ item EXCEPT ![key] = Absent ]

\* fmt.Sprint(item[key])
Sprint(item, key) == IF Found(item, key) THEN item[key] ELSE NilStr

IsDynamic(f) == f.Value = ""

RawDomain(f) ==
  CASE f.Type \in {"text", ""} -> TextRaw
    [] f.Type = "url" -> URLRaw
    [] f.Type = "date" -> DateRaw
    [] OTHER -> {""}

\* what the primitives find in one item node for the main-page fields
MainSels(cc) ==
  LET idx == { n \in 1..Len(cc.Fields) :
                 IsDynamic(cc.Fields[n]) /\ cc.Fields[n].OnSubpage = "" }
      names == { cc.Fields[n].Name : n \in idx }
  IN { s \in [ names -> TextRaw \cup URLRaw \cup DateRaw ] :
         \A n \in idx : s[cc.Fields[n].Name] \in RawDomain(cc.Fields[n]) }

\* an item node: the exclude selectors it matches or contains, and its fields
Nodes(cc) == [ marks : SUBSET Selectors, raw : MainSels(cc) ]

NothingRead(cc) == [ n \in FieldNames(cc) |-> Unread ]

NoNode(cc) ==
  [ status |-> "none", marks |-> {}, seen |-> NothingRead(cc), fetched |-> << >> ]

(***************************************************************************)
(* filterItem, removeHiddenFields, extractField.                           *)
(***************************************************************************)
\* a return statement without the shortcut for nrMatchTrue == 0
filterResultNoShortcut(nrMatchTrue, filterMatchTrue, filterMatchFalse) ==
  [ err |-> FALSE, keep |-> filterMatchTrue /\ filterMatchFalse ]

\* the return statement of filterItem
filterResult(nrMatchTrue, filterMatchTrue, filterMatchFalse) ==
  [ err |-> FALSE,
    keep |-> (IF nrMatchTrue = 0 THEN TRUE ELSE filterMatchTrue)
             /\ filterMatchFalse ]

RECURSIVE filterLoop(_, _, _, _, _, _)
\* the loop of filterItem from filter n on, then its return statement
filterLoop(cc, item, n, nrMatchTrue, filterMatchTrue, filterMatchFalse) ==
  IF n > Len(cc.Filters)
  THEN filterResult(nrMatchTrue, filterMatchTrue, filterMatchFalse)
  ELSE LET filter == cc.Filters[n] IN
       IF ~Compiles(filter.Regex)
       THEN [ err |-> TRUE, keep |-> FALSE ]
       ELSE IF Found(item, filter.Field)
       THEN IF filter.Match
            THEN filterLoop(cc, item, n + 1, nrMatchTrue + 1,
                            filterMatchTrue
                              \/ MatchString(filter.Regex, Sprint(item, filter.Field)),
                            filterMatchFalse)
            ELSE filterLoop(cc, item, n + 1, nrMatchTrue, filterMatchTrue,
                            filterMatchFalse
                              /\ ~MatchString(filter.Regex, Sprint(item, filter.Field)))
       ELSE filterLoop(cc, item, n + 1, nrMatchTrue, filterMatchTrue,
                       filterMatchFalse)

filterItem(cc, item) == filterLoop(cc, item, 1, 0, FALSE, TRUE)

RECURSIVE removeHiddenLoop(_, _, _)
removeHiddenLoop(cc, item, n) ==
  IF n > Len(cc.Fields) THEN item
  ELSE removeHiddenLoop(cc,
         IF cc.Fields[n].Hide THEN Delete(item, cc.Fields[n].Name) ELSE item,
         n + 1)

removeHiddenFields(cc, item) == removeHiddenLoop(cc, item, 1)

\* extractField without the check of CanBeEmpty
extractFieldKeepsEmpty(field, event, s, baseURL) ==
  CASE field.Type \in {"text", ""} ->
         IF s[field.Name] = ERR
         THEN [ err |-> TRUE, event |-> event ]
         ELSE [ err |-> FALSE, event |-> Put(event, field.Name, s[field.Name]) ]
    [] field.Type = "url" ->
         [ err |-> FALSE,
           event |-> Put(event, field.Name,
                         IF s[field.Name] = "" THEN baseURL ELSE s[field.Name]) ]
    [] field.Type = "date" ->
         IF s[field.Name] = ERR
         THEN [ err |-> TRUE, event |-> event ]
         ELSE [ err |-> FALSE, event |-> Put(event, field.Name, s[field.Name]) ]
    [] OTHER -> [ err |-> TRUE, event |-> event ]

\* s gives, for the field's name, what the primitive of the field's type
\* (getTextString, getURLString, getDate) finds in the selection
extractField(field, event, s, baseURL) ==
  CASE field.Type \in {"text", ""} ->
         IF s[field.Name] = ERR
         THEN [ err |-> TRUE, event |-> event ]
         ELSE IF ~field.CanBeEmpty /\ s[field.Name] = ""
         THEN [ err |-> TRUE, event |-> event ]
         ELSE [ err |-> FALSE, event |-> Put(event, field.Name, s[field.Name]) ]
    [] field.Type = "url" ->
         [ err |-> FALSE,
           event |-> Put(event, field.Name,
                         IF s[field.Name] = "" THEN baseURL ELSE s[field.Name]) ]
    [] field.Type = "date" ->
         IF s[field.Name] = ERR
         THEN [ err |-> TRUE, event |-> event ]
         ELSE [ err |-> FALSE, event |-> Put(event, field.Name, s[field.Name]) ]
    [] OTHER -> [ err |-> TRUE, event |-> event ]

(***************************************************************************)
(* The callback of doc.Find(c.Item).Each.                                  *)
(***************************************************************************)
\* an exclusion that looks at the first selector only
ExcludedFirstOnly(cc, marks) ==
  Len(cc.ExcludeWithSelector) > 0 /\ cc.ExcludeWithSelector[1] \in marks

\* the loop over c.ExcludeWithSelector: marks are the selectors s matches
\* or contains
Excluded(cc, marks) ==
  \E n \in 1..Len(cc.ExcludeWithSelector) : cc.ExcludeWithSelector[n] \in marks

RECURSIVE MainFields(_, _, _, _, _, _)
\* the first loop over c.Fields, from field n on: static fields and the
\* dynamic fields of the main page
MainFields(cc, n, item, seen, s, baseURL) ==
  IF n > Len(cc.Fields)
  THEN [ err |-> FALSE, item |-> item, seen |-> seen ]
  ELSE LET f == cc.Fields[n] IN
       IF f.Value # ""
       THEN MainFields(cc, n + 1, Put(item, f.Name, f.Value), seen, s, baseURL)
       ELSE IF f.OnSubpage = ""
       THEN LET r == extractField(f, item, s, baseURL)
                sn == [ seen EXCEPT ![f.Name] = s[f.Name] ]
            IN IF r.err
               THEN [ err |-> TRUE, item |-> item, seen |-> sn ]
               ELSE MainFields(cc, n + 1, r.event, sn, s, baseURL)
       ELSE MainFields(cc, n + 1, item, seen, s, baseURL)

RECURSIVE NextSub(_, _)
\* the next field from n on that the second loop over c.Fields handles
NextSub(cc, n) ==
  IF n > Len(cc.Fields) THEN n
  ELSE IF cc.Fields[n].OnSubpage # "" /\ cc.Fields[n].Value = "" THEN n
  ELSE NextSub(cc, n + 1)

\* a cache that outlives the item
SharedSubDocs == subDocs

\* subDocs := make(map[string]*goquery.Document): the documents cached, by URL
FreshSubDocs == {}

\* what fetcher.Fetch and goquery.NewDocumentFromReader answer
FetchResults == {"ok", "fetchErr", "parseErr"}

\* the callback returns: Each goes on with the next node, and after the
\* last one GetItems goes on after Each
EndOfCallback ==
  /\ i' = i + 1
  /\ pc' = IF i + 1 < nNodes THEN "item" ELSE "next"
  /\ currentItem' = EmptyItem(c)
  /\ k' = 0
  /\ UNCHANGED << retErr >>

\* a failed item that ends the run with an error
SkipItemAborts ==
  /\ pc' = "done"
  /\ retErr' = "itemErr"
  /\ currentItem' = EmptyItem(c)
  /\ k' = 0
  /\ UNCHANGED << i, items >>

\* a field, a subpage fetch or a subpage parse failed: log and return
SkipItem == EndOfCallback /\ UNCHANGED << items >>

\* the hidden fields removed before the filters look at the item
FinishResultStripFirst(cc, item) ==
  LET filter == filterItem(cc, removeHiddenFields(cc, item)) IN
  [ fatal |-> filter.err,
    keep |-> filter.keep,
    out |-> removeHiddenFields(cc, item) ]

\* the end of the callback: filter, remove the hidden fields, append
FinishResult(cc, item) ==
  LET filter == filterItem(cc, item) IN
  [ fatal |-> filter.err,
    keep |-> filter.keep,
    out |-> removeHiddenFields(cc, item) ]

(***************************************************************************)
(* getDate.  A string is the sequence of its space-separated pieces: the   *)
(* code builds dateTimeString and every dateTimeLayout by appending a      *)
(* piece and " " per date part.                                            *)
(***************************************************************************)
ZeroTime == "0001-01-01 00:00"   \* var t time.Time
CurrentYear == "2026"            \* strconv.Itoa(time.Now().Year())

\* time.LoadLocation: err == nil
LoadLocation(name) == name # "Nowhere"

\* strings.Replace(l, "p.m.", "pm", 1) on the pieces of the model
ReplacePM(l) == IF l = "3 p.m." THEN "3 pm" ELSE l

\* strings.Replace(dateTimeString, "Mrz", "Mär", 1)
ReplaceMrz(str) ==
  LET at == { n \in 1..Len(str) : str[n] = "12. Mrz" } IN
  IF at = {} THEN str
  ELSE [ str EXCEPT ![CHOOSE n \in at : \A m \in at : n <= m] = "12. Mär" ]

\* a piece of text parses under a piece of layout
Fits(l, text, mLocale) ==
  CASE l = "02.01" -> text = "12.04"
    [] l = "2. Jan" -> text = "12. Mär" /\ mLocale = "de_DE"
    [] l = "3 pm" -> text = "3 pm"
    [] l = "2006" -> text = CurrentYear
    [] l = "15:04" -> text \in {"20:00", "18:30"}
    [] OTHER -> FALSE

\* monday.ParseInLocation: err == nil
ParseInLocation(dateTimeLayout, dateTimeString, mLocale) ==
  /\ Len(dateTimeLayout) = Len(dateTimeString)
  /\ \A n \in 1..Len(dateTimeLayout) :
       Fits(dateTimeLayout[n], dateTimeString[n], mLocale)

NoParts == [ Day |-> FALSE, Month |-> FALSE, Year |-> FALSE, Time |-> FALSE ]

\* a check that only looks at the day
checkForDoubleDatePartsDayOnly(dpOne, dpTwo) ==
  IF dpOne.Day /\ dpTwo.Day THEN "'day' covered at least twice" ELSE "nil"

checkForDoubleDateParts(dpOne, dpTwo) ==
  IF dpOne.Day /\ dpTwo.Day THEN "'day' covered at least twice"
  ELSE IF dpOne.Month /\ dpTwo.Month THEN "'month' covered at least twice"
  ELSE IF dpOne.Year /\ dpTwo.Year THEN "'year' covered at least twice"
  ELSE IF dpOne.Time /\ dpTwo.Time THEN "'time' covered at least twice"
  ELSE "nil"

mergeDateParts(dpOne, dpTwo) ==
  [ Day |-> dpOne.Day \/ dpTwo.Day, Month |-> dpOne.Month \/ dpTwo.Month,
    Year |-> dpOne.Year \/ dpTwo.Year, Time |-> dpOne.Time \/ dpTwo.Time ]

hasAllDateParts(cdp) == cdp.Day /\ cdp.Month /\ cdp.Year /\ cdp.Time

MapReplacePM(layout) == [ n \in 1..Len(layout) |-> ReplacePM(layout[n]) ]

RECURSIVE collectDateParts(_, _, _, _, _)
\* the loop over f.Components from component n on; s answers getTextString
collectDateParts(components, s, n, dateParts, combinedParts) ==
  IF n > Len(components)
  THEN [ err |-> "nil", dateParts |-> dateParts, combinedParts |-> combinedParts ]
  ELSE LET cmp == components[n]
           double == checkForDoubleDateParts(cmp.Covers, combinedParts)
           sp == s[cmp.ElementLocation]
       IN IF hasAllDateParts(combinedParts)
          THEN collectDateParts(components, s, n + 1, dateParts, combinedParts)
          ELSE IF double # "nil"
          THEN [ err |-> double, dateParts |-> dateParts,
                 combinedParts |-> combinedParts ]
          ELSE IF sp = ERR
          THEN [ err |-> "getTextString", dateParts |-> dateParts,
                 combinedParts |-> combinedParts ]
          ELSE IF sp # ""
          THEN collectDateParts(components, s, n + 1,
                 Append(dateParts, [ stringPart |-> ReplacePM(sp),
                                     layoutParts |-> MapReplacePM(cmp.Layout) ]),
                 mergeDateParts(combinedParts, cmp.Covers))
          ELSE collectDateParts(components, s, n + 1, dateParts, combinedParts)

\* the inner loops of the layout product: every layout so far, extended by
\* every layout part of dp, in that order
ExtendLayouts(tmpDateTimeLayouts, layoutParts) ==
  IF Len(layoutParts) = 0 THEN << >>
  ELSE [ x \in 1..(Len(tmpDateTimeLayouts) * Len(layoutParts)) |->
           Append(tmpDateTimeLayouts[((x - 1) \div Len(layoutParts)) + 1],
                  layoutParts[((x - 1) % Len(layoutParts)) + 1]) ]

RECURSIVE layoutProduct(_, _, _)
\* the loop over dateParts from part n on
layoutProduct(dateParts, n, dateTimeLayouts) ==
  IF n > Len(dateParts) THEN dateTimeLayouts
  ELSE layoutProduct(dateParts, n + 1,
                     ExtendLayouts(dateTimeLayouts, dateParts[n].layoutParts))

RECURSIVE parseLoop(_, _, _, _, _)
\* the loop over dateTimeLayouts from layout n on, then the final return
parseLoop(dateTimeLayouts, dateTimeString, mLocale, n, err) ==
  IF n > Len(dateTimeLayouts) THEN [ err |-> err, t |-> ZeroTime ]
  ELSE IF ParseInLocation(dateTimeLayouts[n], dateTimeString, mLocale)
  THEN [ err |-> "nil",
         t |-> [ layout |-> dateTimeLayouts[n], value |-> dateTimeString ] ]
  ELSE parseLoop(dateTimeLayouts, dateTimeString, mLocale, n + 1, "parse")

\* defaults with the time put before the year
withDefaultsTimeFirst(dateParts, combinedParts) ==
  LET withTime == IF ~combinedParts.Time
                  THEN Append(dateParts, [ stringPart |-> "20:00",
                                           layoutParts |-> <<"15:04">> ])
                  ELSE dateParts
  IN IF ~combinedParts.Year
     THEN Append(withTime, [ stringPart |-> CurrentYear,
                             layoutParts |-> <<"2006">> ])
     ELSE withTime

\* "adding default values where necessary"
withDefaults(dateParts, combinedParts) ==
  LET withYear == IF ~combinedParts.Year
                  THEN Append(dateParts, [ stringPart |-> CurrentYear,
                                           layoutParts |-> <<"2006">> ])
                  ELSE dateParts
  IN IF ~combinedParts.Time
     THEN Append(withYear, [ stringPart |-> "20:00",
                             layoutParts |-> <<"15:04">> ])
     ELSE withYear

\* a test that only asks for the day
missingDayOnly(combinedParts) == ~combinedParts.Day

\* "currently not all date parts have default values"
missingDayOrMonth(combinedParts) == ~combinedParts.Day \/ ~combinedParts.Month

getDate(f, s) ==
  IF ~LoadLocation(f.DateLocation)
  THEN [ err |-> "unknown time zone", t |-> ZeroTime ]
  ELSE
  LET mLocale == IF f.DateLanguage # "" THEN f.DateLanguage ELSE "de_DE"
      col == collectDateParts(f.Components, s, 1, << >>, NoParts)
      combinedParts == col.combinedParts
      dateParts == withDefaults(col.dateParts, combinedParts)
      dateTimeString == [ n \in 1..Len(dateParts) |-> dateParts[n].stringPart ]
  IN IF col.err # "nil" THEN [ err |-> col.err, t |-> ZeroTime ]
     ELSE IF missingDayOrMonth(combinedParts)
     THEN [ err |-> "at least a day and a month is needed", t |-> ZeroTime ]
     ELSE parseLoop(layoutProduct(dateParts, 1, << << >> >>),
                    ReplaceMrz(dateTimeString), mLocale, 1, "nil")

(***************************************************************************)
(* extractStringRegex.  A text is the sequence of its words; a match of a  *)
(* pattern is one word of the text.                                        *)
(***************************************************************************)
Words == {"a1", "a2", "a3", "b"}

\* regexp.Compile of regex_extract.exp
CompilesExp(exp) == exp # "("

\* a word the pattern matches: "a." matches a1, a2, a3; "b" matches b
WordMatches(exp, w) ==
  CASE exp = "a." -> w \in {"a1", "a2", "a3"}
    [] exp = "b" -> w = "b"
    [] OTHER -> FALSE

\* regex.FindAllString(s, -1)
FindAllString(exp, s) == SelectSeq(s, LAMBDA w : WordMatches(exp, w))

\* the outcomes of a call: a value with a nil error, an error with the value
\* "", or a runtime panic (index out of range)
Ok(v) == [ outcome |-> "ok", val |-> v ]
Failed(msg) == [ outcome |-> "err", val |-> << >>, msg |-> msg ]
Panic == [ outcome |-> "panic" ]

extractStringRegex(rc, s) ==
  IF rc.Exp = "" THEN Ok(s)
  ELSE IF ~CompilesExp(rc.Exp) THEN Failed("compile")
  ELSE LET matchingStrings == FindAllString(rc.Exp, s) IN
       IF Len(matchingStrings) = 0 THEN Failed("no matching strings found")
       ELSE IF rc.Index = -1
       THEN Ok(<< matchingStrings[Len(matchingStrings)] >>)
       ELSE IF rc.Index >= Len(matchingStrings)
       THEN Failed("regex index out of bounds")
       ELSE IF rc.Index < 0 THEN Panic   \* matchingStrings[rc.Index]
       ELSE Ok(<< matchingStrings[rc.Index + 1] >>)

(***************************************************************************)
(* getURLString.  A string is the sequence of its pieces, the pieces the   *)
(* prefix tests look at standing alone; "" is the empty sequence.          *)
(***************************************************************************)
\* the string of a list of pieces, some of which may be empty
Str(pieces) == SelectSeq(pieces, LAMBDA x : x # "")

HasPrefix(str, prefix) ==
  /\ Len(str) > 0
  /\ CASE prefix = "http" -> str[1] \in {"http", "http://", "https://"}
       [] OTHER -> str[1] = prefix

RECURSIVE TrimLeft(_)
TrimLeft(str) ==
  IF Len(str) > 0 /\ str[1] = " " THEN TrimLeft(Tail(str)) ELSE str

RECURSIVE TrimRight(_)
TrimRight(str) ==
  IF Len(str) > 0 /\ str[Len(str)] = " "
  THEN TrimRight(SubSeq(str, 1, Len(str) - 1)) ELSE str

\* strings.TrimSpace
TrimSpace(str) == TrimRight(TrimLeft(str))

\* the value of the attribute the location names: of the selection itself
\* when there is no selector, else of the node at NodeIndex among the nodes
\* the selector finds; "" when there is no such node or attribute
urlValOf(e, s) ==
  LET attr == IF e.Attr = "" THEN "href" ELSE e.Attr IN
  IF e.Selector = "" THEN s.self[attr]
  ELSE IF Len(s.found) > e.NodeIndex THEN s.found[e.NodeIndex + 1][attr]
  ELSE << >>

\* baseURL is given as url.Parse returns it
getURLString(e, s, baseURL) ==
  LET u == baseURL
      urlVal == urlValOf(e, s)
      urlRes ==
        IF HasPrefix(urlVal, "http") THEN urlVal
        ELSE IF HasPrefix(urlVal, "?")
        THEN Str(<< u.Scheme, "://", u.Host, u.Path >>) \o urlVal
        ELSE Str(<< u.Scheme, "://", u.Host >>)
               \o (IF ~HasPrefix(urlVal, "/") THEN << "/" >> ELSE << >>)
               \o urlVal
  IN IF urlVal = << >> THEN << >> ELSE TrimSpace(urlRes)

(***************************************************************************)
(* getTextString.  s.found are the nodes s.Find(t.Selector) finds; a node  *)
(* has attributes and direct children, a child is a text node with its     *)
(* Data or an element with the text of its subtree.                        *)
(***************************************************************************)
\* truncation to maxLength with an ellipsis appended
ShortenString(str, l) ==
  IF l > 0 /\ l < Len(str) THEN SubSeq(str, 1, l) \o << "..." >> ELSE str

\* a test that takes -1 for the first child
selectsChildFirstOnly(t, currentChildIndex) ==
  currentChildIndex = t.ChildIndex \/ (t.ChildIndex = -1 /\ currentChildIndex = 0)

\* currentChildIndex == t.ChildIndex || t.ChildIndex == -1
selectsChild(t, currentChildIndex) ==
  currentChildIndex = t.ChildIndex \/ t.ChildIndex = -1

RECURSIVE childLoop(_, _, _)
\* the loop over the direct children from child n on: the value it returns,
\* if it returns
childLoop(t, children, n) ==
  IF n > Len(children) THEN [ returned |-> FALSE ]
  ELSE IF selectsChild(t, n - 1) /\ children[n].Type = "text"
  THEN LET r == extractStringRegex(t.RegexExtract, children[n].Data) IN
       IF r.outcome = "panic" THEN [ returned |-> TRUE, r |-> Panic ]
       ELSE IF r.outcome = "ok"
       THEN [ returned |-> TRUE,
              r |-> Ok(ShortenString(TrimSpace(r.val), t.MaxLength)) ]
       ELSE IF t.ChildIndex # -1 THEN [ returned |-> TRUE, r |-> r ]
       ELSE childLoop(t, children, n + 1)
  ELSE childLoop(t, children, n + 1)

RECURSIVE subtreeText(_, _)
\* the text of the text nodes below a node, in document order
subtreeText(children, n) ==
  IF n > Len(children) THEN << >>
  ELSE children[n].Data \o subtreeText(children, n + 1)

\* from "automatically trimming whitespaces" to the end
textTail(t, fieldString) ==
  LET r == extractStringRegex(t.RegexExtract, TrimSpace(fieldString)) IN
  IF r.outcome = "ok" THEN Ok(ShortenString(r.val, t.MaxLength)) ELSE r

getTextString(t, s) ==
  IF Len(s.found) > t.NodeIndex
  THEN IF t.Attr = ""
       THEN IF t.EntireSubtree
            THEN textTail(t, subtreeText(s.found[t.NodeIndex + 1].children, 1))
            ELSE LET loop == childLoop(t, s.found[t.NodeIndex + 1].children, 1)
                 IN IF loop.returned THEN loop.r
                    \* fieldString holds "" here: it is only assigned from an
                    \* extraction that failed
                    ELSE textTail(t, << >>)
       ELSE textTail(t, s.found[1].attrs[t.Attr])
  ELSE textTail(t, << >>)

(***************************************************************************)
(* GetItems.                                                               *)
(***************************************************************************)
Locals ==
  /\ pageURL = c.URL
  /\ hasNextPage = TRUE
  /\ currentPage = 0
  /\ items = << >>
  /\ retErr = "nil"
  /\ nNodes = 0
  /\ i = 0
  /\ currentItem = EmptyItem(c)
  /\ subDocs = {}
  /\ k = 0
  /\ served = 0
  /\ nMain = 0
  /\ lastRes = "none"
  /\ cur = NoNode(c)
  /\ prevFetched = << >>

NoCall == "none"

Start == pc = "fetch" /\ Locals /\ args = NoCall /\ ret = NoCall

Init == c \in Scrapers /\ links = TwoPages /\ Start

PageInit == c \in PageScrapers /\ links \in LinkStructures /\ Start

\* a failed page that is passed over instead of ending the run
PageFailedGoesOn(res) ==
  /\ retErr' = "nil"
  /\ pc' = "next"
  /\ UNCHANGED << nNodes, i, served >>

\* return items, err
PageFailed(res) ==
  /\ retErr' = res
  /\ pc' = "done"
  /\ UNCHANGED << nNodes, i, served >>

\* fetcher.Fetch(pageURL), goquery.NewDocumentFromReader, doc.Find(c.Item)
FetchPage ==
  /\ pc = "fetch"
  /\ nMain' = Min(nMain + 1, PageCap)
  /\ \E res \in FetchResults :
       /\ lastRes' = res
       /\ IF res # "ok"
          THEN PageFailed(res)
          ELSE \E n \in 0..Min(MaxNodes, MaxTotalNodes - served) :
                 /\ nNodes' = n
                 /\ i' = 0
                 /\ served' = served + n
                 /\ pc' = IF n > 0 THEN "item" ELSE "next"
                 /\ UNCHANGED retErr
  /\ UNCHANGED << args, ret, c, links, pageURL, hasNextPage, currentPage, items,
                  currentItem, subDocs, k, cur, prevFetched >>

\* the callback for one item node, up to the end of the first loop over
\* c.Fields
BeginItem ==
  /\ pc = "item"
  /\ \E node \in Nodes(c) :
       LET m == MainFields(c, 1, EmptyItem(c), NothingRead(c), node.raw, pageURL)
       IN IF Excluded(c, node.marks)
          THEN /\ cur' = [ status |-> "excluded", marks |-> node.marks,
                           seen |-> NothingRead(c), fetched |-> << >> ]
               /\ EndOfCallback
               /\ UNCHANGED << items, subDocs >>
          ELSE IF m.err
          THEN /\ cur' = [ status |-> "skipped", marks |-> node.marks,
                           seen |-> m.seen, fetched |-> << >> ]
               /\ SkipItem
               /\ UNCHANGED subDocs
          ELSE /\ cur' = [ status |-> "running", marks |-> node.marks,
                           seen |-> m.seen, fetched |-> << >> ]
               /\ currentItem' = m.item
               /\ subDocs' = FreshSubDocs
               /\ k' = NextSub(c, 1)
               /\ pc' = "sub"
               /\ UNCHANGED << i, items, retErr >>
  /\ prevFetched' = cur.fetched
  /\ UNCHANGED << args, ret, c, links, pageURL, hasNextPage, currentPage, nNodes, served,
                  nMain, lastRes >>

\* one pass of the second loop over c.Fields: the field k of a subpage
SubField ==
  /\ pc = "sub"
  /\ k <= Len(c.Fields)
  /\ LET f == c.Fields[k]
         subpageURL == Sprint(currentItem, f.OnSubpage)
         found == subpageURL \in subDocs
         fetchedNow == IF found THEN cur.fetched
                       ELSE Append(cur.fetched, subpageURL)
     IN \E res \in (IF found THEN {"cached"} ELSE FetchResults) :
             IF res \in {"fetchErr", "parseErr"}
             THEN /\ cur' = [ cur EXCEPT !.status = "skipped",
                                         !.fetched = fetchedNow ]
                  /\ SkipItem
                  /\ UNCHANGED subDocs
             ELSE \E raw \in RawDomain(f) :
                    LET r == extractField(f, currentItem,
                                          [ n \in {f.Name} |-> raw ], c.URL)
                    IN /\ subDocs' = subDocs \cup {subpageURL}
                       /\ IF r.err
                          THEN /\ cur' = [ cur EXCEPT !.status = "skipped",
                                                      !.fetched = fetchedNow,
                                                      !.seen[f.Name] = raw ]
                               /\ SkipItem
                          ELSE /\ cur' = [ cur EXCEPT !.fetched = fetchedNow,
                                                      !.seen[f.Name] = raw ]
                               /\ currentItem' = r.event
                               /\ k' = NextSub(c, k + 1)
                               /\ UNCHANGED << pc, i, items, retErr >>
  /\ UNCHANGED << args, ret, c, links, pageURL, hasNextPage, currentPage, nNodes, served,
                  nMain, lastRes, prevFetched >>

\* an item put in front of the others
prependItem(its, item) == << item >> \o its

\* items = append(items, currentItem)
appendItem(its, item) == Append(its, item)

\* the end of the callback; log.Fatalf ends the process
FinishItem ==
  /\ pc = "sub"
  /\ k > Len(c.Fields)
  /\ LET r == FinishResult(c, currentItem)
     IN IF r.fatal
        THEN /\ pc' = "fatal"
             /\ cur' = [ cur EXCEPT !.status = "fatal" ]
             /\ UNCHANGED << i, items, retErr, currentItem, k >>
        ELSE /\ items' = IF r.keep THEN appendItem(items, r.out) ELSE items
             /\ cur' = [ cur EXCEPT !.status = IF r.keep THEN "kept" ELSE "filtered" ]
             /\ EndOfCallback
  /\ UNCHANGED << args, ret, c, links, pageURL, hasNextPage, currentPage, nNodes, served,
                  subDocs, nMain, lastRes, prevFetched >>

\* a limit that lets one page too many through
MorePagesOffByOne(page, maxPages) == page <= maxPages \/ maxPages = 0

\* currentPage < c.Paginator.MaxPages || c.Paginator.MaxPages == 0
MorePages(page, maxPages) == page < maxPages \/ maxPages = 0

\* after Each: the next page's URL and whether the loop goes on
NextPage ==
  /\ pc = "next"
  /\ LET next == links[pageURL]
         page == IF next # "" THEN Min(currentPage + 1, PageCap) ELSE currentPage
         more == next # "" /\ MorePages(page, c.MaxPages)
     IN /\ pageURL' = next
        /\ currentPage' = page
        /\ hasNextPage' = more
        /\ pc' = IF more THEN "fetch" ELSE "done"
  /\ UNCHANGED << args, ret, c, links, items, retErr, nNodes, i, currentItem, subDocs, k,
                  served, nMain, lastRes, cur, prevFetched >>

Next == FetchPage \/ BeginItem \/ SubField \/ FinishItem \/ NextPage

Spec == Init /\ [][Next]_vars

PageSpec == PageInit /\ [][Next]_vars

\* GetItems runs on while it has a step to take
FairPageSpec == PageSpec /\ WF_vars(Next)

(***************************************************************************)
(* filterItem called on its own.  The item is drawn at the start; every    *)
(* step appends one filter to c.Filters and filters the item again.        *)
(***************************************************************************)
IdleScraper ==
  Scraper([ Fields |-> FieldsFlat, Filters |-> << >>,
            ExcludeWithSelector |-> << >> ], 0)

\* GetItems is not running
NoCrawl == c = IdleScraper /\ links = TwoPages /\ pc = "idle" /\ Locals

crawl == << c, links, pc, pageURL, hasNextPage, currentPage, items, retErr,
            nNodes, i, currentItem, subDocs, k, served, nMain, lastRes, cur,
            prevFetched >>

\* "z" compiles and matches no value of the model; "(" does not compile
FilterUniverse ==
  { Flt(f, re, m) : f \in {"title", "note", "zzz"}, re \in {"a", "z", "("},
                    m \in BOOLEAN }

\* items with a title; "note" is in some of them, "zzz" in none
FilterItems ==
  { [ title |-> t, note |-> n ] : t \in {"a", ""}, n \in {Absent, "a"} }

FilterInit ==
  /\ NoCrawl
  /\ \E item \in FilterItems :
       /\ args = [ c |-> IdleScraper, item |-> item ]
       /\ ret = filterItem(IdleScraper, item)

AddFilter ==
  /\ Len(args.c.Filters) < MaxFilters
  /\ \E f \in FilterUniverse :
       LET cc == [ args.c EXCEPT !.Filters = Append(@, f) ] IN
       /\ args' = [ args EXCEPT !.c = cc ]
       /\ ret' = filterItem(cc, args.item)
  /\ UNCHANGED crawl

FilterNext == AddFilter

FilterSpec == FilterInit /\ [][FilterNext]_vars

(***************************************************************************)
(* getDate called on its own.  The date field and the texts getTextString  *)
(* finds for its components are drawn at the start.                        *)
(***************************************************************************)
CoverSets == [ Day : BOOLEAN, Month : BOOLEAN, Year : BOOLEAN, Time : BOOLEAN ]

\* the text at a component's location and the component's layouts: an
\* error, no text, a text in the only layout, a text in the second layout,
\* a time written with "p.m.", a date with the month written "Mrz", a time,
\* a text for a component without layouts
ComponentKinds ==
  { [ text |-> ERR, Layout |-> <<"02.01">> ],
    [ text |-> "", Layout |-> <<"02.01">> ],
    [ text |-> "12.04", Layout |-> <<"02.01">> ],
    [ text |-> "12.04", Layout |-> <<"2. Jan", "02.01">> ],
    [ text |-> "3 p.m.", Layout |-> <<"3 p.m.">> ],
    [ text |-> "12. Mrz", Layout |-> <<"2. Jan">> ],
    [ text |-> "18:30", Layout |-> <<"15:04">> ],
    [ text |-> "12.04", Layout |-> << >> ] }

DateField(loc, cov, kinds) ==
  [ Name |-> "when", Type |-> "date", DateLocation |-> loc, DateLanguage |-> "",
    Components |-> [ n \in DOMAIN cov |->
                       [ Covers |-> cov[n], ElementLocation |-> n,
                         Layout |-> kinds[n].Layout ] ] ]

DateInit ==
  /\ NoCrawl
  /\ \E len \in 0..MaxComponents,
        loc \in {"UTC", "Nowhere"} :
       \* an unknown time zone is explored with one component at most
       /\ loc = "Nowhere" => len <= 1
       /\ \E cov \in [ 1..len -> CoverSets ], kinds \in [ 1..len -> ComponentKinds ] :
         args = [ f |-> DateField(loc, cov, kinds),
                  s |-> [ n \in 1..len |-> kinds[n].text ] ]
  /\ ret = [ done |-> FALSE ]

CallGetDate ==
  /\ ~ret.done
  /\ LET r == getDate(args.f, args.s) IN
     ret' = [ done |-> TRUE, err |-> r.err, t |-> r.t,
              \* the date parts when the loop over the components ends
              dateParts |-> LET col == collectDateParts(args.f.Components, args.s,
                                                       1, << >>, NoParts)
                            IN IF LoadLocation(args.f.DateLocation) /\ col.err = "nil"
                               THEN withDefaults(col.dateParts, col.combinedParts)
                               ELSE << >> ]
  /\ UNCHANGED << args, crawl >>

DateNext == CallGetDate

DateSpec == DateInit /\ [][DateNext]_vars

(***************************************************************************)
(* extractStringRegex called on its own.                                   *)
(***************************************************************************)
RECURSIVE Texts(_)
\* the texts of at most n words
Texts(n) ==
  IF n = 0 THEN { << >> }
  ELSE Texts(n - 1) \cup { Append(t, w) : t \in { x \in Texts(n - 1) : Len(x) = n - 1 },
                                            w \in Words }

RegexConfigs == [ Exp : {"", "(", "a.", "b"}, Index : (0 - MaxIndex)..MaxIndex ]

RegexInit ==
  /\ NoCrawl
  /\ args \in [ rc : RegexConfigs, s : Texts(MaxWords) ]
  /\ ret = [ done |-> FALSE ]

CallExtractStringRegex ==
  /\ ~ret.done
  /\ ret' = [ done |-> TRUE, r |-> extractStringRegex(args.rc, args.s) ]
  /\ UNCHANGED << args, crawl >>

RegexNext == CallExtractStringRegex

RegexSpec == RegexInit /\ [][RegexNext]_vars

(***************************************************************************)
(* getURLString called on its own.                                         *)
(***************************************************************************)
\* values of an href: none, absolute (https, ftp), a query, paths with and
\* without a leading slash, a path followed by a space, a relative path
\* whose first letters are "http"
HrefValues ==
  { << >>, << "https://", "y.test/z" >>, << "ftp://", "y.test/z" >>,
    << "?", "p=2" >>, << "/", "events/1" >>, << "events/1" >>,
    << "/", "events/1", " " >>, << "http", "-archive/1" >> }

SrcValues == { << >>, << "/", "img.png" >> }

AttrMaps == [ href : HrefValues, src : SrcValues ]

\* the lists of at most n nodes a selector finds
FoundNodes(n) ==
  UNION { [ 1..m -> AttrMaps ] : m \in 0..n }

ElementLocations ==
  [ Selector : {"", "a"}, NodeIndex : 0..MaxFound, Attr : {"", "src"} ]

\* https://x.test/a/b and https://x.test?q=1
BaseURLs ==
  { [ Scheme |-> "https", Host |-> "x.test", Path |-> "/a/b", RawQuery |-> "" ],
    [ Scheme |-> "https", Host |-> "x.test", Path |-> "", RawQuery |-> "q=1" ] }

URLInit ==
  /\ NoCrawl
  /\ args \in [ e : ElementLocations,
                 s : [ self : AttrMaps, found : FoundNodes(MaxFound) ],
                 baseURL : BaseURLs ]
  /\ ret = [ done |-> FALSE ]

CallGetURLString ==
  /\ ~ret.done
  /\ ret' = [ done |-> TRUE, r |-> getURLString(args.e, args.s, args.baseURL) ]
  /\ UNCHANGED << args, crawl >>

URLNext == CallGetURLString

URLSpec == URLInit /\ [][URLNext]_vars

(***************************************************************************)
(* getTextString called on its own.                                        *)
(***************************************************************************)
\* a text the pattern "a." matches twice, behind white space, and a text it
\* does not match
ChildData == { << " ", "a1", "a2" >>, << "b" >> }

ChildNodes == [ Type : {"text", "element"}, Data : ChildData ]

TextNodes ==
  [ attrs : [ title : { << >>, << "a1" >> } ],
    children : UNION { [ 1..m -> ChildNodes ] : m \in 0..MaxChildren } ]

\* regex_extract: none, or "a." with the index of a match or -1
TextRegexConfigs ==
  { [ Exp |-> "", Index |-> 0 ] } \cup [ Exp : {"a."}, Index : -1..1 ]

\* the three ways to read a text: an attribute, the entire subtree, the
\* direct children
TextLocations ==
  { [ Selector |-> "p", NodeIndex |-> ni, ChildIndex |-> ci, RegexExtract |-> rc,
      Attr |-> mode.Attr, MaxLength |-> ml, EntireSubtree |-> mode.EntireSubtree ] :
      ni \in 0..MaxFound, ci \in -1..MaxChildren, rc \in TextRegexConfigs,
      ml \in 0..1,
      mode \in { [ Attr |-> "title", EntireSubtree |-> FALSE ],
                 [ Attr |-> "", EntireSubtree |-> TRUE ],
                 [ Attr |-> "", EntireSubtree |-> FALSE ] } }

TextInit ==
  /\ NoCrawl
  /\ args \in [ t : TextLocations,
                 s : [ found : UNION { [ 1..m -> TextNodes ] : m \in 0..MaxFound } ] ]
  /\ ret = [ done |-> FALSE ]

CallGetTextString ==
  /\ ~ret.done
  /\ ret' = [ done |-> TRUE, r |-> getTextString(args.t, args.s) ]
  /\ UNCHANGED << args, crawl >>

TextNext == CallGetTextString

TextSpec == TextInit /\ [][TextNext]_vars

(***************************************************************************)
(* APIWriter.Write.  args is the content of the channel: the first HeadLen *)
(* items and the kind of all later ones; ret holds the locals of Write and *)
(* the requests sent so far.  The channel is closed at any moment.         *)
(***************************************************************************)
BatchSize == 100

NotString == "#notstring"   \* item["sourceUrl"] is no string
NotTime == "#nottime"       \* item["date"] is no time.Time

Sources == {"s1", "s2"}
Dates == {"2026-11-01T10:00:30+01:00"}

\* firstDate.UTC().Format("2006-01-02 15:04")
FormatUTC(date) ==
  IF date = "2026-11-01T10:00:30+01:00" THEN "2026-11-01 09:00" ELSE date

ItemKinds == [ sourceUrl : Sources \cup {NotString}, date : Dates \cup {NotTime} ]

\* the j-th item the channel delivers
ItemOf(ch, j) ==
  LET kind == IF j <= Len(ch.head) THEN ch.head[j] ELSE ch.rest IN
  [ seq |-> j, sourceUrl |-> kind.sourceUrl, date |-> kind.date ]

\* a test that finds no source deleted
needsDeleteAlways(deletedSources, currentSrc) == TRUE

\* _, found := deletedSources[currentSrc]; !found
needsDelete(deletedSources, currentSrc) == currentSrc \notin deletedSources

Delete200 == {TRUE, FALSE}   \* the DELETE is answered with status 200, or not
Post201 == {TRUE, FALSE}     \* the POST is answered with status 201, or not

DeleteRequest(item, nr) ==
  [ method |-> "DELETE", sourceUrl |-> item.sourceUrl,
    datetime |-> FormatUTC(item.date), at |-> nr ]

\* postBatch: the request is sent; any answer but 201 ends the process
postBatch(w, batch, created) ==
  [ w EXCEPT !.requests = Append(@, [ method |-> "POST", body |-> batch,
                                      at |-> w.nrItems ]),
             !.pc = IF created THEN @ ELSE "fatal" ]

\* a test that lets one item more into the batch
batchFullLate(batch) == Len(batch) = BatchSize + 1

\* len(batch) == 100
batchFull(batch) == Len(batch) = BatchSize

WriterInit ==
  /\ NoCrawl
  /\ args \in [ head : [ 1..HeadLen -> ItemKinds ],
                 rest : [ sourceUrl : Sources, date : Dates ] ]
  /\ ret = [ pc |-> "range", deletedSources |-> {}, nrItems |-> 0,
             batch |-> << >>, requests |-> << >> ]

\* one pass of the loop over the channel
Consume ==
  /\ ret.pc = "range"
  /\ ret.nrItems < MaxItems
  /\ LET item == ItemOf(args, ret.nrItems + 1)
         counted == [ ret EXCEPT !.nrItems = @ + 1 ]
         currentSrc == item.sourceUrl
         marked == [ counted EXCEPT !.deletedSources = @ \cup {currentSrc} ]
         asked == [ marked EXCEPT
                      !.requests = Append(@, DeleteRequest(item, counted.nrItems)) ]
     IN IF currentSrc = NotString
        THEN ret' = [ counted EXCEPT !.pc = "panic" ]
        ELSE \E deleted \in Delete200, created \in Post201 :
               LET afterDelete ==
                     IF ~needsDelete(ret.deletedSources, currentSrc) THEN counted
                     ELSE IF item.date = NotTime
                     THEN [ marked EXCEPT !.pc = "fatal" ]
                     ELSE IF ~deleted THEN [ asked EXCEPT !.pc = "fatal" ]
                     ELSE asked
                   added == [ afterDelete EXCEPT !.batch = Append(@, item) ]
               IN ret' = IF afterDelete.pc = "fatal" THEN afterDelete
                         ELSE IF batchFull(added.batch)
                         THEN [ postBatch(added, added.batch, created)
                                  EXCEPT !.batch = << >> ]
                         ELSE added
  /\ UNCHANGED << args, crawl >>

\* the channel is closed: the batch in hand is posted and Write returns
Close ==
  /\ ret.pc = "range"
  /\ \E created \in Post201 :
       ret' = LET w == postBatch(ret, ret.batch, created) IN
              IF w.pc = "fatal" THEN w ELSE [ w EXCEPT !.pc = "done" ]
  /\ UNCHANGED << args, crawl >>

WriterNext == Consume \/ Close

WriterSpec == WriterInit /\ [][WriterNext]_vars

(***************************************************************************)
(* Properties of GetItems.                                                 *)
(***************************************************************************)
Range(q) == { q[n] : n \in 1..Len(q) }

Terminated == pc \in {"done", "fatal"}

\* C1: with maxPages = N > 0 never more than N main pages are fetched, and
\* exactly N when the run ends with a next-page URL still in hand; with
\* maxPages = 0 a run that ends without an error ends on a page whose
\* next-page URL is empty.
C1_PageLimit ==
  /\ c.MaxPages > 0 => nMain <= c.MaxPages
  /\ (c.MaxPages > 0 /\ pc = "done" /\ retErr = "nil" /\ pageURL # "")
       => nMain = c.MaxPages
  /\ (c.MaxPages = 0 /\ pc = "done" /\ retErr = "nil") => pageURL = ""

\* two pages fetched under maxPages = 2 while a third is discoverable
C1_Witness ==
  pc = "done" /\ c.MaxPages = 2 /\ nMain = 2 /\ pageURL # "" /\ retErr = "nil"

\* C2: GetItems terminates, whatever maxPages is and however the pages are
\* linked.
C2_Terminates == <>Terminated

\* C3: when the fetch or the parse of a main page fails the run ends at
\* once, returning that error and the items as they were, and after the end
\* of a run nothing is fetched or changed.
C3_PageFailureAborts ==
  [][ /\ (pc = "fetch" /\ lastRes' # "ok")
           => (pc' = "done" /\ retErr' = lastRes' /\ items' = items
               /\ cur' = cur)
      /\ pc = "done" => UNCHANGED vars ]_vars

\* a later page failed after items were collected
C3_Witness == pc = "done" /\ retErr = "parseErr" /\ Len(items) > 0 /\ nMain = 2

\* C4: a failed field, subpage fetch or subpage parse drops the item only:
\* the items stay as they were, no error is returned, and the run goes on
\* with the next node of the page or, after the last, with the next page.
C4_ItemFailureSkips ==
  [][ (cur' # cur /\ cur'.status = "skipped")
        => /\ items' = items
           /\ retErr' = "nil"
           /\ i' = i + 1
           /\ pc' = IF i + 1 < nNodes THEN "item" ELSE "next" ]_vars

\* the second node of a page failed on a subpage, the first was kept, and
\* another page follows
C4_Witness ==
  /\ cur.status = "skipped" /\ cur.fetched # << >>
  /\ Len(items) = 1 /\ pc = "next" /\ links[pageURL] # ""

\* C5: a node that matches or contains any of the exclude selectors yields
\* no item, none of its fields is resolved and no subpage is fetched for it.
C5_ExcludedSkipped ==
  [][ (pc = "item" /\ cur' # cur
       /\ \E n \in 1..Len(c.ExcludeWithSelector) :
            c.ExcludeWithSelector[n] \in cur'.marks)
        => /\ items' = items
           /\ cur'.seen = NothingRead(c)
           /\ cur'.fetched = << >>
           /\ pc' # "sub" ]_vars

\* a node excluded by the second selector of the list
C5_Witness ==
  /\ cur.status = "excluded" /\ cur.marks = {"x2"}
  /\ c.ExcludeWithSelector = <<"x1", "x2">>

RequiredText(cc) ==
  { n \in 1..Len(cc.Fields) :
      /\ cc.Fields[n].Value = ""
      /\ cc.Fields[n].Type \in {"text", ""}
      /\ ~cc.Fields[n].CanBeEmpty }

\* C6: no item of the output holds "" under a text field with
\* canBeEmpty = false, and no item is appended for a node for which such a
\* field, on the main page or on a subpage, resolved to "".
C6_RequiredTextNeverEmpty ==
  /\ [](\A m \in 1..Len(items) : \A n \in RequiredText(c) :
          items[m][c.Fields[n].Name] # "")
  /\ [][ items' # items
           => \A n \in RequiredText(c) : cur'.seen[c.Fields[n].Name] # "" ]_vars

\* a required text field of a subpage resolved to "" and the item was dropped
C6_Witness ==
  /\ cur.status = "skipped"
  /\ \E n \in RequiredText(c) :
       c.Fields[n].OnSubpage # "" /\ cur.seen[c.Fields[n].Name] = ""

AllCompile(fs) == \A n \in 1..Len(fs) : Compiles(fs[n].Regex)

\* filter n names a field of the item and its regex matches the value
Hits(fs, item, n) ==
  /\ Found(item, fs[n].Field)
  /\ MatchString(fs[n].Regex, Sprint(item, fs[n].Field))

Positive(fs) == { n \in 1..Len(fs) : fs[n].Match }
Negative(fs) == { n \in 1..Len(fs) : ~fs[n].Match }

\* C7 as written: with regexes that compile, the item is kept exactly when
\* (the list has no match=true filter or some match=true filter matches) and
\* no match=false filter matches.
C7_AsWritten ==
  LET fs == args.c.Filters IN
  AllCompile(fs) =>
    ret.keep = ( (Positive(fs) = {}
                    \/ (\E n \in Positive(fs) : Hits(fs, args.item, n)))
                 /\ (\A n \in Negative(fs) : ~Hits(fs, args.item, n)) )

\* C7: with regexes that compile, filterItem returns no error and keeps the
\* item exactly when (no match=true filter names a field the item has, or
\* some match=true filter matches) and no match=false filter matches; and
\* appending, to a list without match=true filters, a match=true filter whose
\* regex never matches and whose field the item has drops the item.
C7_KeptIffBothFlags ==
  /\ [](LET fs == args.c.Filters
            present == { n \in Positive(fs) : Found(args.item, fs[n].Field) }
        IN AllCompile(fs) =>
             /\ ~ret.err
             /\ ret.keep = ( (present = {}
                                \/ (\E n \in present : Hits(fs, args.item, n)))
                             /\ (\A n \in Negative(fs) : ~Hits(fs, args.item, n)) ))
  /\ [][ LET fs == args'.c.Filters
             f == fs[Len(fs)]
         IN ( /\ Positive(args.c.Filters) = {}
              /\ AllCompile(fs)
              /\ f.Match /\ f.Regex = "z"
              /\ Found(args.item, f.Field) ) => ~ret'.keep ]_vars

\* a match=true filter on a field the item lacks, next to a match=false
\* filter that does not match: the item is kept
C7_Witness ==
  LET fs == args.c.Filters IN
  /\ Len(fs) = 2 /\ AllCompile(fs)
  /\ fs[1].Match /\ ~Found(args.item, fs[1].Field)
  /\ ~fs[2].Match /\ Found(args.item, fs[2].Field)
  /\ ret.keep /\ ~ret.err

\* C8: items of the output hold no hidden field, and an item is appended
\* only if the record with its hidden fields still in it passes the
\* filters; what is appended is that record without the hidden fields.
C8_HiddenAfterFilter ==
  /\ [](\A m \in 1..Len(items) : \A n \in 1..Len(c.Fields) :
          c.Fields[n].Hide => ~Found(items[m], c.Fields[n].Name))
  /\ [][ items' # items
           => /\ \A n \in 1..Len(c.Filters) :
                   (~c.Filters[n].Match /\ Found(currentItem, c.Filters[n].Field))
                     => ~MatchString(c.Filters[n].Regex,
                                     currentItem[c.Filters[n].Field])
              /\ \A key \in DOMAIN currentItem :
                   items'[Len(items')][key] \in {currentItem[key], Absent} ]_vars

\* an item was kept by a filter on a field that is hidden
C8_Witness ==
  /\ cur.status = "kept" /\ Len(items) > 0
  /\ \E n \in 1..Len(c.Filters), m \in 1..Len(c.Fields) :
       /\ c.Fields[m].Name = c.Filters[n].Field
       /\ c.Fields[m].Hide
       /\ cur.seen[c.Fields[m].Name] # Unread

\* the subpage fields the callback has resolved so far
SubFieldsRead ==
  { n \in 1..Len(c.Fields) :
      c.Fields[n].OnSubpage # "" /\ cur.seen[c.Fields[n].Name] # Unread }

\* C9: for one item no subpage URL is fetched twice, and every subpage an
\* item reads was fetched for that item: the cache holds nothing of earlier
\* items.
C9_SubpageCachePerItem ==
  /\ \A a, b \in 1..Len(cur.fetched) : a # b => cur.fetched[a] # cur.fetched[b]
  /\ pc = "sub" =>
       /\ subDocs \subseteq Range(cur.fetched)
       /\ \A n \in SubFieldsRead :
            Sprint(currentItem, c.Fields[n].OnSubpage) \in Range(cur.fetched)

\* two fields read from one subpage with one fetch, of a URL that the
\* previous item fetched too
C9_Witness ==
  /\ pc = "sub"
  /\ Cardinality(SubFieldsRead) = 2
  /\ Len(cur.fetched) = 1
  /\ cur.fetched[1] \in Range(prevFetched)

\* two components cover a common part
Shares(dpOne, dpTwo) ==
  \/ dpOne.Day /\ dpTwo.Day
  \/ dpOne.Month /\ dpTwo.Month
  \/ dpOne.Year /\ dpTwo.Year
  \/ dpOne.Time /\ dpTwo.Time

\* C10 as written: getDate fails whenever two components cover a common
\* part.
C10_AsWritten ==
  LET cs == args.f.Components IN
  ret.done =>
    ( (\E m, n \in 1..Len(cs) : m < n /\ Shares(cs[m].Covers, cs[n].Covers))
        => ret.err # "nil" )

\* component m's text was found and is not empty
HasText(m) == args.s[m] \notin {"", ERR}

\* the components before n that have a text cover all four parts
AllCoveredBefore(n) ==
  LET cs == args.f.Components IN
  /\ \E m \in 1..(n - 1) : HasText(m) /\ cs[m].Covers.Day
  /\ \E m \in 1..(n - 1) : HasText(m) /\ cs[m].Covers.Month
  /\ \E m \in 1..(n - 1) : HasText(m) /\ cs[m].Covers.Year
  /\ \E m \in 1..(n - 1) : HasText(m) /\ cs[m].Covers.Time

\* C10: getDate fails whenever a component covers a part that an earlier
\* component with a non-empty text covers, unless the components with a
\* non-empty text before it already cover all four parts.
C10_DoubleCoverFails ==
  LET cs == args.f.Components IN
  ret.done =>
    \A m, n \in 1..Len(cs) :
      ( /\ m < n /\ HasText(m)
        /\ Shares(cs[m].Covers, cs[n].Covers)
        /\ ~AllCoveredBefore(n) ) => ret.err # "nil"

\* day and month from the first component, month and year from the second
C10_Witness ==
  LET cs == args.f.Components IN
  /\ ret.done /\ ret.err = "'month' covered at least twice"
  /\ Len(cs) = 2 /\ args.s[1] = "12.04" /\ args.s[2] = "12.04"
  /\ cs[1].Covers = [ Day |-> TRUE, Month |-> TRUE, Year |-> FALSE, Time |-> FALSE ]
  /\ cs[2].Covers = [ Day |-> FALSE, Month |-> TRUE, Year |-> TRUE, Time |-> FALSE ]

DayMonthError == "at least a day and a month is needed"

\* no component covers day, or no component covers month
LeavesDayOrMonth(cs) ==
  \/ \A n \in 1..Len(cs) : ~cs[n].Covers.Day
  \/ \A n \in 1..Len(cs) : ~cs[n].Covers.Month

Orderings(n) ==
  { p \in [ 1..n -> 1..n ] : \A a, b \in 1..n : p[a] = p[b] => a = b }

\* the field with its components in the order p
Reordered(f, p) ==
  [ f EXCEPT !.Components = [ n \in 1..Len(f.Components) |-> f.Components[p[n]] ] ]

NoTextError == \A n \in DOMAIN args.s : args.s[n] # ERR

NoSharedPart(cs) ==
  \A m, n \in 1..Len(cs) : m # n => ~Shares(cs[m].Covers, cs[n].Covers)

\* C11 as written: when the time zone loads and every text is found, a set
\* of components without day or without month makes getDate fail with the
\* day-and-month error, in every ordering.
C11_AsWritten ==
  LET cs == args.f.Components IN
  ( /\ ret.done /\ LoadLocation(args.f.DateLocation) /\ NoTextError
    /\ LeavesDayOrMonth(cs) ) =>
      \A p \in Orderings(Len(cs)) :
        getDate(Reordered(args.f, p), args.s).err = DayMonthError

\* C11: a set of components without day or without month makes getDate
\* fail in every ordering; when the time zone loads, every text is found and
\* no two components cover a common part, the error is the day-and-month
\* error in every ordering.
C11_MissingDayMonthFails ==
  LET cs == args.f.Components IN
  ( ret.done /\ LeavesDayOrMonth(cs) ) =>
      /\ ret.err # "nil"
      /\ \A p \in Orderings(Len(cs)) :
           LET r == getDate(Reordered(args.f, p), args.s) IN
           /\ r.err # "nil"
           /\ ( LoadLocation(args.f.DateLocation) /\ NoTextError
                /\ NoSharedPart(cs) )
                => ( r.err = DayMonthError /\ ret.err = DayMonthError )

\* a day and a time with their texts, no month
C11_Witness ==
  LET cs == args.f.Components IN
  /\ ret.done /\ ret.err = DayMonthError
  /\ Len(cs) = 2 /\ args.s[1] = "12.04" /\ args.s[2] = "3 p.m."
  /\ cs[1].Covers = [ Day |-> TRUE, Month |-> FALSE, Year |-> FALSE, Time |-> FALSE ]
  /\ cs[2].Covers = [ Day |-> FALSE, Month |-> FALSE, Year |-> FALSE, Time |-> TRUE ]

\* C12: with a non-empty pattern, extractStringRegex returns the match at
\* position index, the last match when index = -1, and an error without a
\* value when there is no match or the index denotes no match, whatever the
\* integer index.
C12_ExtractByIndex ==
  LET rc == args.rc
      found == FindAllString(rc.Exp, args.s)
  IN ( ret.done /\ rc.Exp # "" /\ CompilesExp(rc.Exp) ) =>
       IF rc.Index = -1 /\ Len(found) > 0
       THEN ret.r = Ok(<< found[Len(found)] >>)
       ELSE IF rc.Index >= 0 /\ rc.Index < Len(found)
       THEN ret.r = Ok(<< found[rc.Index + 1] >>)
       ELSE ret.r.outcome = "err" /\ ret.r.val = << >>

\* the value starts with a scheme
HasScheme(str) ==
  Len(str) > 0 /\ str[1] \in {"http://", "https://", "ftp://"}

\* C13: a non-empty attribute value is normalized by three cases: a value
\* starting with a scheme is returned as it is; a value starting with "?"
\* is appended to scheme, host and path of the page; every other value is
\* joined to scheme and host with exactly one slash between them.
C13_ThreeCases ==
  LET urlVal == urlValOf(args.e, args.s)
      u == args.baseURL
      noSlash == IF urlVal[1] = "/" THEN Tail(urlVal) ELSE urlVal
  IN ( ret.done /\ urlVal # << >> ) =>
       ret.r = TrimSpace(
                 IF HasScheme(urlVal) THEN urlVal
                 ELSE IF urlVal[1] = "?"
                 THEN Str(<< u.Scheme, "://", u.Host, u.Path >>) \o urlVal
                 ELSE Str(<< u.Scheme, "://", u.Host, "/" >>) \o noSlash )

\* component n is recorded: it has a text and is reached before the
\* recorded components cover all four parts
Recorded(n) == HasText(n) /\ ~AllCoveredBefore(n)

\* the fragments of the recorded components, in configured order
RecordedParts ==
  LET cs == args.f.Components
      idx == SelectSeq([ n \in 1..Len(cs) |-> n ], LAMBDA n : Recorded(n))
  IN [ j \in 1..Len(idx) |->
         [ stringPart |-> ReplacePM(args.s[idx[j]]),
           layoutParts |-> MapReplacePM(cs[idx[j]].Layout) ] ]

RecordedCovers(part) ==
  \E n \in 1..Len(args.f.Components) :
    Recorded(n) /\ args.f.Components[n].Covers[part]

\* C14: when the loop over the components ends without an error, the date
\* parts are the fragments of the recorded components in configured order,
\* then the current year with layout "2006" iff no recorded component covers
\* year, then "20:00" with layout "15:04" iff none covers time.
C14_FragmentsAndDefaults ==
  ( ret.done /\ ret.err \in {"nil", "parse", DayMonthError} ) =>
    ret.dateParts =
      RecordedParts
        \o (IF RecordedCovers("Year") THEN << >>
            ELSE << [ stringPart |-> CurrentYear, layoutParts |-> <<"2006">> ] >>)
        \o (IF RecordedCovers("Time") THEN << >>
            ELSE << [ stringPart |-> "20:00", layoutParts |-> <<"15:04">> ] >>)

\* day and month "12.04", time "18:30", no year: the current year, 12.04,
\* 18:30
C14_Witness ==
  LET cs == args.f.Components IN
  /\ ret.done /\ ret.err = "nil" /\ Len(cs) = 2
  /\ cs[1].Covers = [ Day |-> TRUE, Month |-> TRUE, Year |-> FALSE, Time |-> FALSE ]
  /\ cs[2].Covers = [ Day |-> FALSE, Month |-> FALSE, Year |-> FALSE, Time |-> TRUE ]
  /\ args.s = << "12.04", "18:30" >>
  /\ cs[1].Layout = << "02.01" >> /\ cs[2].Layout = << "15:04" >>
  /\ ret.t = [ layout |-> << "02.01", "15:04", "2006" >>,
               value |-> << "12.04", "18:30", CurrentYear >> ]

\* a permutation picks one layout alternative for every date part
LayoutChoices(parts) ==
  { ch \in [ 1..Len(parts) -> 1..2 ] :
      \A j \in 1..Len(parts) : ch[j] <= Len(parts[j].layoutParts) }

LayoutOf(parts, ch) == [ j \in 1..Len(parts) |-> parts[j].layoutParts[ch[j]] ]

StringOf(parts) == ReplaceMrz([ j \in 1..Len(parts) |-> parts[j].stringPart ])

\* the order in which the permutations are tried: the alternatives of the
\* last part vary fastest
TriedBefore(a, b) ==
  \E j \in DOMAIN a : a[j] < b[j] /\ \A m \in 1..(j - 1) : a[m] = b[m]

ParsesWith(parts, ch) ==
  ParseInLocation(LayoutOf(parts, ch), StringOf(parts), "de_DE")

\* C15: once the date parts are assembled, getDate returns the parse of the
\* first permutation, in the order they are tried, that parses, and a non-nil
\* error when no permutation parses.
C15_FirstParseOrError ==
  LET parts == ret.dateParts
      good == { ch \in LayoutChoices(parts) : ParsesWith(parts, ch) }
  IN ( ret.done /\ ret.err \in {"nil", "parse"} ) =>
       IF good # {}
       THEN /\ ret.err = "nil"
            /\ \E ch \in good :
                 /\ \A other \in good : ~TriedBefore(other, ch)
                 /\ ret.t = [ layout |-> LayoutOf(parts, ch),
                              value |-> StringOf(parts) ]
       ELSE ret.err # "nil"

\* C16: while an item is built, every url field whose attribute resolved
\* to "" holds the URL of the page being processed: the page of the crawl
\* or, for a field of a subpage, that page or the subpage.
C16_EmptyURLIsPageURL ==
  ( pc = "sub" /\ cur.status = "running" ) =>
    \A n \in 1..Len(c.Fields) :
      LET f == c.Fields[n] IN
      ( f.Value = "" /\ f.Type = "url" /\ cur.seen[f.Name] = "" ) =>
        \/ currentItem[f.Name] = pageURL
        \/ f.OnSubpage # "" /\ currentItem[f.Name] = Sprint(currentItem, f.OnSubpage)

\* the scraper has a filter with the malformed pattern "("
MalformedFilter(cc) == \E n \in 1..Len(cc.Filters) : cc.Filters[n].Regex = "("

\* C17 as written: a run of a scraper with a malformed filter regex never
\* completes normally.
C17_AsWritten == MalformedFilter(c) => ~(pc = "done" /\ retErr = "nil")

\* C17: a run of a scraper with a malformed filter regex never holds an item,
\* and it ends with the fatal error at the first item that reaches the
\* filters; it completes normally only when no item reached them.
C17_MalformedFilterIsFatal ==
  /\ [](MalformedFilter(c) => items = << >>)
  /\ [][ ( MalformedFilter(c) /\ cur' # cur
           /\ cur'.status \in {"kept", "filtered", "fatal"} )
           => ( pc' = "fatal" /\ cur'.status = "fatal" /\ items' = items ) ]_vars
  /\ [][ pc = "fatal" => UNCHANGED vars ]_vars

\* the fatal error on the second page, after the item of the first page
\* was skipped
C17_Witness ==
  /\ MalformedFilter(c) /\ pc = "fatal" /\ nMain = 2 /\ pageURL = "u2"

\* C18: items only changes by the item of the node being processed being
\* put at its end; the nodes of a page are processed in the order of their
\* index, and a page is fetched only after the last node of the page before.
C18_DocumentOrder ==
  [][ /\ items' # items
           => /\ pc = "sub" /\ cur.status = "running" /\ cur'.status = "kept"
              /\ items' = items \o << removeHiddenFields(c, currentItem) >>
              /\ i' = i + 1
      /\ i' # i => \/ i' = i + 1 /\ i < nNodes /\ nMain' = nMain
                   \/ i' = 0 /\ pc = "fetch" /\ nMain' = nMain + 1
      /\ nMain' # nMain => ( pc = "fetch" /\ nMain' = nMain + 1 ) ]_vars

\* an item of the first page followed by a different item of the second
C18_Witness ==
  /\ Len(items) = 2 /\ items[1] # items[2]
  /\ nMain = 2 /\ i = 1 /\ nNodes = 1 /\ cur.status = "kept"

\* the value getTextString returns for a text child whose Data the regex
\* extraction accepts
ChildValue(t, child) ==
  Ok(ShortenString(TrimSpace(extractStringRegex(t.RegexExtract, child.Data).val),
                   t.MaxLength))

\* child n is a text node on which the regex extraction succeeds
GoodChild(t, children, n) ==
  /\ children[n].Type = "text"
  /\ extractStringRegex(t.RegexExtract, children[n].Data).outcome = "ok"

\* C19: without attribute and entire subtree, childIndex = -1 returns the
\* value of the first text child, in order, on which the regex extraction
\* succeeds; childIndex = k >= 0 reads the child at offset k only: its value
\* when it is a text child the extraction accepts, an error when it is a
\* text child the extraction rejects, and otherwise what an empty text gives.
C19_ChildIndex ==
  LET t == args.t IN
  ( /\ ret.done /\ t.Attr = "" /\ ~t.EntireSubtree
    /\ Len(args.s.found) > t.NodeIndex ) =>
    LET children == args.s.found[t.NodeIndex + 1].children
        good == { n \in 1..Len(children) : GoodChild(t, children, n) }
        at == t.ChildIndex + 1
    IN /\ ( t.ChildIndex = -1 /\ good # {} ) =>
            \E n \in good : /\ \A m \in good : n <= m
                             /\ ret.r = ChildValue(t, children[n])
       /\ ( t.ChildIndex >= 0 /\ at <= Len(children) /\ children[at].Type = "text" ) =>
            IF at \in good THEN ret.r = ChildValue(t, children[at])
            ELSE ret.r.outcome = "err"
       /\ ( t.ChildIndex >= 0 /\ ~(at <= Len(children) /\ children[at].Type = "text") ) =>
            ret.r = extractStringRegex(t.RegexExtract, << >>)

\* childIndex = -1: the first text child does not match, the second does
C19_Witness ==
  LET t == args.t IN
  /\ ret.done /\ t.Attr = "" /\ ~t.EntireSubtree /\ t.ChildIndex = -1
  /\ t.NodeIndex = 0 /\ Len(args.s.found) = 1
  /\ t.RegexExtract = [ Exp |-> "a.", Index |-> 1 ]
  /\ args.s.found[1].children =
       << [ Type |-> "text", Data |-> << "b" >> ],
          [ Type |-> "text", Data |-> << " ", "a1", "a2" >> ] >>
  /\ ret.r = Ok(<< "a2" >>)

Deletes(src) ==
  { q \in 1..Len(ret.requests) :
      ret.requests[q].method = "DELETE" /\ ret.requests[q].sourceUrl = src }

\* C20: at most one DELETE is sent for a source; it is sent at the first
\* item of that source, and before every POST whose batch holds an item of
\* that source; while Write runs, every source of an item consumed so far
\* has its DELETE.
C20_OneDeletePerSource ==
  /\ \A src \in Sources : Cardinality(Deletes(src)) <= 1
  /\ \A q \in 1..Len(ret.requests) :
       LET r == ret.requests[q] IN
       IF r.method = "DELETE"
       THEN /\ ItemOf(args, r.at).sourceUrl = r.sourceUrl
            /\ \A j \in 1..(r.at - 1) : ItemOf(args, j).sourceUrl # r.sourceUrl
       ELSE \A n \in 1..Len(r.body) :
              \E d \in Deletes(r.body[n].sourceUrl) : d < q
  /\ ret.pc \in {"range", "done"} =>
       \A j \in 1..ret.nrItems : Cardinality(Deletes(ItemOf(args, j).sourceUrl)) = 1

\* s1, s2, s1 and the channel is closed: two DELETEs, then one POST
C20_Witness ==
  /\ ret.pc = "done" /\ ret.nrItems = 3 /\ Len(ret.requests) = 3
  /\ ret.requests[1].method = "DELETE" /\ ret.requests[1].sourceUrl = "s1"
  /\ ret.requests[2].method = "DELETE" /\ ret.requests[2].sourceUrl = "s2"
  /\ ret.requests[3].method = "POST" /\ Len(ret.requests[3].body) = 3
  /\ ret.requests[3].body[3].sourceUrl = "s1"

Posts == { q \in 1..Len(ret.requests) : ret.requests[q].method = "POST" }

RECURSIVE Posted(_)
\* the records of the first q requests' POST batches, one after the other
Posted(q) ==
  IF q = 0 THEN << >>
  ELSE IF ret.requests[q].method = "POST"
  THEN Posted(q - 1) \o ret.requests[q].body
  ELSE Posted(q - 1)

\* the items consumed so far, in the order of their arrival
Consumed == [ j \in 1..ret.nrItems |-> ItemOf(args, j) ]

\* C21: as long as no request has failed, the POST batches followed by the
\* batch in hand are the items consumed, each once and in the order of
\* arrival; when Write has returned the POST batches alone are; and no batch
\* holds more than 100 records.
C21_BatchesHoldEveryItemOnce ==
  /\ \A q \in Posts : Len(ret.requests[q].body) <= BatchSize
  /\ ret.pc = "range" => Posted(Len(ret.requests)) \o ret.batch = Consumed
  /\ ret.pc = "done" => Posted(Len(ret.requests)) = Consumed

\* 201 items of two sources: batches of 100, 100 and 1
C21_Witness ==
  /\ ret.pc = "done" /\ ret.nrItems = 201 /\ Cardinality(Posts) = 3
  /\ Len(ret.requests[Len(ret.requests)].body) = 1
  /\ ret.deletedSources = Sources

\* C22: every POST carries at least one record, and when Write has returned
\* after n items it has sent ceil(n / 100) POSTs.
C22_NoEmptyPost ==
  /\ \A q \in Posts : Len(ret.requests[q].body) >= 1
  /\ ret.pc = "done" =>
       Cardinality(Posts) = (ret.nrItems + BatchSize - 1) \div BatchSize

====
